---- MODULE Spec2Model ----
(***************************************************************************)
(* Model of src/03-fastapi/src/mobile.py: the mobile01 router that         *)
(* forwards CRUD and RPC calls to the backing store (Supabase).            *)
(*                                                                         *)
(* Strings are sequences of atoms.  An atom is one character, except that  *)
(* a few fixed phrases of the backing store's error text ("PGRST202",      *)
(* "Could not find the function", "Perhaps you meant to call the           *)
(* function") are single atoms.  Python's None is the value NoneV, also   *)
(* as a value of an argument object (JSON null); the integers of argument   *)
(* objects are the strings of IntValues.                                    *)
(*                                                                         *)
(* Spec runs one call at a time: a call is one handler invocation, from    *)
(* the incoming request to the delivered result, and the token cache and   *)
(* the clock persist from call to call.                                    *)
(***************************************************************************)
EXTENDS Integers, Sequences, FiniteSets, TLC

VARIABLES env, now, cache, calls, issued

vars == <<env, now, cache, calls, issued>>

(***************************************************************************)
(* Bounds of the model.                                                    *)
(***************************************************************************)
\* the clock runs from 0 to MaxTime
MaxTime == 2

(***************************************************************************)
(* Strings.                                                                *)
(***************************************************************************)
NoneV == <<"<None>">>

\* Python truthiness of an Optional[str]
Truthy(s) == s # NoneV /\ s # <<>>

Min(a, b) == IF a < b THEN a ELSE b

\* s[i:j] with 0 <= i, 0 <= j (Python slice)
Slice(s, i, j) ==
    LET hi == Min(j, Len(s))
    IN  IF i >= hi THEN <<>> ELSE [k \in 1..(hi - i) |-> s[i + k]]

\* s.startswith(pre)
StartsWith(s, pre) == Len(s) >= Len(pre) /\ Slice(s, 0, Len(pre)) = pre

\* s.find(sub, start): the lowest 0-based index at or after start, or -1
Find(s, sub, start) ==
    LET hits == {i \in start..(Len(s) - Len(sub)) : Slice(s, i, i + Len(sub)) = sub}
    IN  IF hits = {} THEN -1 ELSE CHOOSE i \in hits : \A j \in hits : i <= j

\* sub in s
Contains(s, sub) == Find(s, sub, 0) # -1

IsSpace(a) == a = " "

\* s.strip()
Strip(s) ==
    LET keep == {i \in 1..Len(s) : ~IsSpace(s[i])}
    IN  IF keep = {} THEN <<>>
        ELSE LET lo == CHOOSE i \in keep : \A j \in keep : i <= j
                 hi == CHOOSE i \in keep : \A j \in keep : i >= j
             IN  Slice(s, lo - 1, hi)

LowerAtom(a) ==
    CASE a = "B" -> "b"
      [] a = "E" -> "e"
      [] a = "A" -> "a"
      [] a = "R" -> "r"
      [] OTHER -> a

\* s.lower()
Lower(s) == [i \in 1..Len(s) |-> LowerAtom(s[i])]

\* s.split(sep) for a one-atom separator
RECURSIVE Split(_, _)
Split(s, sep) ==
    LET i == Find(s, <<sep>>, 0)
    IN  IF i = -1 THEN <<s>>
        ELSE <<Slice(s, 0, i)>> \o Split(Slice(s, i + 1, Len(s)), sep)

\* s.split()[-1] for a stripped, non-empty s: the last whitespace-separated word
LastWord(s) ==
    LET sp == {i \in 1..Len(s) : IsSpace(s[i])}
    IN  IF sp = {} THEN s
        ELSE Slice(s, CHOOSE i \in sp : \A j \in sp : i >= j, Len(s))

BearerPrefix == <<"B", "e", "a", "r", "e", "r", " ">>

bearer_lc == <<"b", "e", "a", "r", "e", "r", " ">>

(***************************************************************************)
(* Environment (module-level configuration read from os.environ).          *)
(***************************************************************************)
ServiceKey == <<"K">>

AnonKey == <<"A">>

DevEmail == <<"e">>

DevPassword == <<"w">>

DevUser == <<"U">>

Url == <<"https://x.supabase.co">>

TABLE == <<"mobile01">>

Environ(k, a, e, p, du, ov) ==
    [SUPABASE_URL |-> Url, SUPABASE_KEY |-> k, SUPABASE_ANON_KEY |-> a,
     SUPABASE_DEV_EMAIL |-> e, SUPABASE_DEV_PASSWORD |-> p,
     DEV_STATIC_USER_ID |-> du, DEV_ALLOW_RPC_OVERRIDES |-> ov]

\* the configurations the model starts from; SUPABASE_URL is always set
EnvConfigs ==
    { Environ(k, AnonKey, e, p, NoneV, NoneV) :
        k \in {NoneV, ServiceKey}, e \in {NoneV, DevEmail}, p \in {NoneV, DevPassword} }
    \cup { Environ(ServiceKey, AnonKey, NoneV, NoneV, du, ov) :
        du \in {NoneV, DevUser}, ov \in {NoneV, <<"1">>, <<"0">>} }
    \cup { Environ(ServiceKey, AnonKey, <<>>, DevPassword, NoneV, NoneV),
           Environ(ServiceKey, NoneV, NoneV, NoneV, NoneV, NoneV),
           Environ(ServiceKey, AnonKey, DevEmail, DevPassword, DevUser, <<"1">>),
           Environ(ServiceKey, AnonKey, NoneV, NoneV, <<>>, <<"1">>) }

SUPABASE_URL == env.SUPABASE_URL

SUPABASE_KEY == env.SUPABASE_KEY

SUPABASE_ANON_KEY == env.SUPABASE_ANON_KEY

(***************************************************************************)
(* _headers                                                                *)
(***************************************************************************)
\* _headers with the scheme compared case-sensitively (line 49 without .lower())
_headers_case_sensitive(auth_token) ==
    LET apikey == IF Truthy(SUPABASE_ANON_KEY) THEN SUPABASE_ANON_KEY ELSE NoneV
    IN  IF Truthy(auth_token)
        THEN LET token == Strip(auth_token)
             IN  [apikey |-> apikey, Prefer |-> NoneV,
                  Authorization |->
                      IF ~StartsWith(token, BearerPrefix)
                      THEN BearerPrefix \o token
                      ELSE token]
        ELSE [apikey |-> apikey, Prefer |-> NoneV,
              Authorization |->
                  IF Truthy(SUPABASE_KEY) THEN BearerPrefix \o SUPABASE_KEY ELSE NoneV]

_headers(auth_token) ==
    LET apikey == IF Truthy(SUPABASE_ANON_KEY) THEN SUPABASE_ANON_KEY ELSE NoneV
    IN  IF Truthy(auth_token)
        THEN LET token == Strip(auth_token)
             IN  [apikey |-> apikey, Prefer |-> NoneV,
                  Authorization |->
                      IF ~StartsWith(Lower(token), bearer_lc)
                      THEN BearerPrefix \o token
                      ELSE token]
        ELSE [apikey |-> apikey, Prefer |-> NoneV,
              Authorization |->
                  IF Truthy(SUPABASE_KEY) THEN BearerPrefix \o SUPABASE_KEY ELSE NoneV]

(***************************************************************************)
(* JSON argument objects: functions from names to JSON values.             *)
(***************************************************************************)
EmptyDict == [k \in {} |-> NoneV]

p_ == <<"p", "_">>

n_title == <<"t", "i", "t", "l", "e">>

n_color == <<"c", "o", "l", "o", "r">>

n_position == <<"p", "o", "s", "i", "t", "i", "o", "n">>

n_order == <<"o", "r", "d", "e", "r">>

n_pos == <<"p", "o", "s">>

n_id == <<"i", "d">>

n_name == <<"n", "a", "m", "e">>

n_user == <<"u", "s", "e", "r">>

IntValues == {<<"0">>, <<"3">>}

inbox == <<"i", "n", "b", "o", "x">>

work == <<"w", "o", "r", "k">>

red == <<"r", "e", "d">>

StrValues == {inbox, work, red}

\* {**a, **b}
Merge(a, b) ==
    [k \in (DOMAIN a) \cup (DOMAIN b) |-> IF k \in DOMAIN b THEN b[k] ELSE a[k]]

\* d.get(k)
Get(d, k) == IF k \in DOMAIN d THEN d[k] ELSE NoneV

(***************************************************************************)
(* The parameter-name fallback of _supabase_rpc (lines 129-166).           *)
(***************************************************************************)
PGRST202 == <<"PGRST202">>

CouldNotFind == <<"Could not find the function">>

HintPhrase == <<"Perhaps you meant to call the function">>

\* the test of line 127 with its second alternative left out
function_not_found_code_only(text) == Contains(text, PGRST202)

\* the test of line 127 left out: every failure is retried
function_not_found_any(text) == TRUE

\* line 127
function_not_found(text) == Contains(text, PGRST202) \/ Contains(text, CouldNotFind)

\* line 131
prefixed_args(args) ==
    [k \in {p_ \o a : a \in DOMAIN args} |-> args[Slice(k, 2, Len(k))]]

\* the default of lines 160-164 with only 'position' tested
default_value_position_only(base) ==
    IF Contains(base, n_position) THEN <<"0">> ELSE NoneV

\* lines 160-164
default_value(base) ==
    IF Contains(base, n_position) \/ Contains(base, n_order) \/ Contains(base, n_pos)
    THEN <<"0">>
    ELSE NoneV

\* lines 148-164
mapped_value(p_name, args, alt_args) ==
    LET base == IF StartsWith(p_name, p_) THEN Slice(p_name, 2, Len(p_name)) ELSE p_name
    IN  IF base \in DOMAIN args THEN args[base]
        ELSE IF base \in DOMAIN alt_args THEN alt_args[base]
        ELSE default_value(base)

\* lines 131-166: the body of the retry
retry_args(args, text) ==
    LET alt_args == prefixed_args(args)
        hint_idx == Find(text, HintPhrase, 0)
        start    == IF hint_idx # -1 THEN Find(text, <<"(">>, hint_idx) ELSE -1
        end      == IF start # -1 THEN Find(text, <<")">>, start) ELSE -1
    IN  IF hint_idx # -1 /\ start # -1 /\ end # -1
        THEN LET params_raw == Slice(text, start + 1, end)
                 pieces     == Split(params_raw, ",")
                 params     == {Strip(pieces[i]) : i \in 1..Len(pieces)} \ {<<>>}
                 names      == {LastWord(p) : p \in params}
             IN  [n \in names |-> mapped_value(n, args, alt_args)]
        ELSE alt_args

(***************************************************************************)
(* Responses of the backing store and of its auth endpoint.                *)
(***************************************************************************)
SP == <<" ">>

P(n) == p_ \o n

T_denied == <<"d", "e", "n", "i", "e", "d">>

\* "PGRST202 Perhaps you meant to call the function f(<params>)"
HintText(params) ==
    PGRST202 \o SP \o HintPhrase \o SP \o <<"f", "(">> \o params \o <<")">>

ErrorTexts ==
    { T_denied,
      <<>>,
      PGRST202,
      CouldNotFind \o SP \o <<"f">>,
      HintText(P(n_title) \o <<",", " ">> \o P(n_position)),
      HintText(P(P(n_title)) \o <<",">> \o n_color \o <<",", " ">> \o P(n_order)),
      HintText(<<>>),
      PGRST202 \o SP \o HintPhrase,
      HintPhrase \o SP \o <<"f", "(">> \o P(n_title) \o <<")">>,
      <<"(">> \o n_title \o <<")">> \o SP \o PGRST202 \o SP \o HintPhrase,
      CouldNotFind \o SP \o HintPhrase \o SP \o <<"f", "(">> \o P(n_title) }

\* a parsed JSON body; a body that is not JSON is carried as text
JsonList(items) == [is_json |-> TRUE, list |-> TRUE, items |-> items]

JsonObject(o) == [is_json |-> TRUE, list |-> FALSE, items |-> <<o>>]

TextValue(t) == [is_json |-> FALSE, list |-> FALSE, items |-> <<t>>]

NoValue == [is_json |-> FALSE, list |-> FALSE, items |-> <<>>]

Response(status, text, json) ==
    [raised |-> FALSE, status |-> status, text |-> text, json |-> json]

\* the transport raised (timeout, connection error) instead of answering
Raised == [raised |-> TRUE, status |-> 0, text |-> <<>>, json |-> NoValue]

RpcResponses ==
    { Response(200, <<"[", "r", "]">>, JsonList(<<"r">>)),
      Response(200, <<"o", "k">>, NoValue),
      Response(399, PGRST202, NoValue),
      Response(400, T_denied, NoValue),
      Raised }
    \cup { Response(404, t, NoValue) : t \in ErrorTexts }

d1 == <<"d", "1">>

d2 == <<"d", "2">>

\* the JSON body of the auth endpoint: access_token and expires_in, each
\* NoneV / -1 when the key is absent
AuthBody(token, expires_in) ==
    [raised |-> FALSE, status |-> 200, is_json |-> TRUE,
     access_token |-> token, expires_in |-> expires_in]

Absent == 0 - 1

AuthResponses ==
    { AuthBody(d1, 12), AuthBody(d1, Absent), AuthBody(d2, 0), AuthBody(d2, 11),
      AuthBody(NoneV, 12), AuthBody(<<>>, 12),
      [raised |-> FALSE, status |-> 200, is_json |-> FALSE,
       access_token |-> NoneV, expires_in |-> Absent],
      [raised |-> FALSE, status |-> 399, is_json |-> TRUE,
       access_token |-> d1, expires_in |-> 13],
      [raised |-> FALSE, status |-> 400, is_json |-> TRUE,
       access_token |-> d1, expires_in |-> 12],
      [raised |-> TRUE, status |-> 0, is_json |-> FALSE,
       access_token |-> NoneV, expires_in |-> Absent] }

(***************************************************************************)
(* Calls in flight.                                                        *)
(***************************************************************************)
Calls == {"a", "b"}

NoResult ==
    [kind |-> "none", status_code |-> 0, detail |-> <<>>,
     supabase_error |-> NoneV, function |-> NoneV, value |-> NoValue]

Return(v) == [NoResult EXCEPT !.kind = "return", !.value = v]

\* raise HTTPException(status_code=..., detail={"supabase_error": .., "function": ..})
HTTPException(status_code, supabase_error, function) ==
    [NoResult EXCEPT !.kind = "HTTPException", !.status_code = status_code,
                     !.supabase_error = supabase_error, !.function = function]

\* raise HTTPException(status_code=..., detail="<text>")
HTTPExceptionText(status_code, detail) ==
    [NoResult EXCEPT !.kind = "HTTPException", !.status_code = status_code,
                     !.detail = detail]

\* an exception of the transport leaves the handler uncaught
Uncaught == [NoResult EXCEPT !.kind = "raise"]

\* the incoming request: its Authorization header, JSON body and path parameter
Input(auth, payload, path) == [auth |-> auth, payload |-> payload, path |-> path]

NoInput == Input(NoneV, EmptyDict, NoneV)

\* no response received (yet)
NoResponse == [raised |-> FALSE, status |-> 0, text |-> <<>>, json |-> NoValue]

NoAuthResponse ==
    [raised |-> FALSE, status |-> 0, is_json |-> FALSE,
     access_token |-> NoneV, expires_in |-> Absent]

IdleCall ==
    [pc |-> "idle", handler |-> "", in |-> NoInput, function |-> NoneV,
     args |-> EmptyDict, given_token |-> NoneV, auth_token |-> NoneV,
     jwt_now |-> 0, jwt_r |-> NoAuthResponse, sent |-> <<>>,
     r |-> NoResponse, r2 |-> NoResponse, result |-> NoResult]

Request(method, kind, name, headers, body) ==
    [method |-> method, kind |-> kind, name |-> name,
     apikey |-> headers.apikey, Authorization |-> headers.Authorization,
     Prefer |-> headers.Prefer, body |-> body]

(***************************************************************************)
(* _get_dev_jwt and _supabase_rpc.  A call runs atomically from one await  *)
(* to the next; the responses are chosen by the environment.               *)
(***************************************************************************)
\* line 205: the margin before expiry
CacheMargin == 10

\* line 220: expires_in when the response gives none
DefaultExpiresIn == 3600

\* the credentials check with "and" for "or": one of the two suffices
dev_credentials_either ==
    Truthy(env.SUPABASE_DEV_EMAIL) \/ Truthy(env.SUPABASE_DEV_PASSWORD)

\* lines 199-202
dev_credentials ==
    Truthy(env.SUPABASE_DEV_EMAIL) /\ Truthy(env.SUPABASE_DEV_PASSWORD)

\* the cache check with ">=" for ">"
cache_valid_inclusive(t) ==
    Truthy(cache.token) /\ cache.expires_at - CacheMargin >= t

\* line 205
cache_valid(t) == Truthy(cache.token) /\ cache.expires_at - CacheMargin > t

\* lines 209-213: the password-grant request
auth_request ==
    Request("POST", "auth", <<"token?grant_type=password">>,
            [apikey |-> IF Truthy(SUPABASE_ANON_KEY) THEN SUPABASE_ANON_KEY ELSE <<>>,
             Authorization |-> NoneV, Prefer |-> NoneV],
            [k \in {<<"email">>, <<"password">>} |->
                IF k = <<"email">> THEN env.SUPABASE_DEV_EMAIL
                ELSE env.SUPABASE_DEV_PASSWORD])

\* lines 120-123: the first POST of _supabase_rpc, sent with auth_token
rpc_post(rec, auth_token) ==
    [rec EXCEPT !.pc = "rpc1", !.auth_token = auth_token, !.jwt_now = 0,
                !.sent = Append(@, Request("POST", "rpc", rec.function,
                                           _headers(auth_token), rec.args))]

\* lines 111-123 with lines 199-213: _supabase_rpc up to its first await
rpc_enter(rec, auth_token) ==
    LET r0 == [rec EXCEPT !.given_token = auth_token]
    IN  IF Truthy(auth_token) THEN rpc_post(r0, auth_token)
        ELSE IF ~dev_credentials THEN rpc_post(r0, auth_token)
        ELSE IF cache_valid(now) THEN rpc_post(r0, cache.token)
        ELSE [r0 EXCEPT !.pc = "auth", !.jwt_now = now,
                        !.sent = Append(@, auth_request)]

\* a handler's call of _supabase_rpc(function, args, auth_token)
supabase_rpc_begin(c, handler, in, function, args, auth_token) ==
    /\ calls[c].pc = "idle"
    /\ calls' = [calls EXCEPT ![c] =
                    rpc_enter([IdleCall EXCEPT !.handler = handler, !.in = in,
                                               !.function = function, !.args = args],
                              auth_token)]
    /\ UNCHANGED <<env, now, cache, issued>>

\* expires_in defaulted only when absent: data.get("expires_in", 3600)
expires_in_of_absent_only(resp) ==
    IF resp.expires_in = Absent THEN DefaultExpiresIn ELSE resp.expires_in

\* line 220
expires_in_of(resp) ==
    IF resp.expires_in = Absent \/ resp.expires_in = 0
    THEN DefaultExpiresIn
    ELSE resp.expires_in

\* the token taken from any JSON body, whatever the status (lines 214-216 left
\* out)
dev_jwt_of_any_status(resp) ==
    IF ~resp.is_json THEN NoneV
    ELSE IF Truthy(resp.access_token) THEN resp.access_token
    ELSE NoneV

\* lines 214-227: the token _get_dev_jwt returns for a response (NoneV: None)
dev_jwt_of(resp) ==
    IF resp.status >= 400 THEN NoneV
    ELSE IF ~resp.is_json THEN NoneV
    ELSE IF Truthy(resp.access_token) THEN resp.access_token
    ELSE NoneV

\* the cache emptied when the lookup gives no token
cache_after_clearing(token, expires_at) ==
    IF token # NoneV
    THEN [token |-> token, expires_at |-> expires_at]
    ELSE [token |-> NoneV, expires_at |-> 0]

\* lines 221-223: the cache is written only under "if token:"
cache_after(token, expires_at) ==
    IF token # NoneV
    THEN [token |-> token, expires_at |-> expires_at]
    ELSE cache

\* the time of the response taken for the time of the request
response_time(rec) == now

\* line 204: now is read before the auth request is awaited
request_start(rec) == rec.jwt_now

\* the auth server's record of the token now in the cache: the response that
\* carried it, the time the request was sent and the time the server issued
\* the token (between the request and its response)
Issued(resp, start, iat) == [resp |-> resp, start |-> start, iat |-> iat]

NoIssue == Issued(NoAuthResponse, 0, 0)

\* lines 213-227 then 114-123: the auth endpoint answers, the RPC is posted
get_dev_jwt_response(c) ==
    /\ calls[c].pc = "auth"
    /\ \E resp \in AuthResponses, iat \in calls[c].jwt_now..now :
        LET rec == calls[c]
            dev_token == IF resp.raised THEN NoneV ELSE dev_jwt_of(resp)
        IN  /\ cache' = cache_after(dev_token, request_start(rec) + expires_in_of(resp))
            /\ issued' = IF dev_token # NoneV
                         THEN Issued(resp, rec.jwt_now, iat)
                         ELSE issued
            /\ calls' = [calls EXCEPT ![c] =
                            LET r1 == [rec EXCEPT !.jwt_r = resp]
                            IN  IF resp.raised THEN rpc_post(r1, NoneV)
                                ELSE IF Truthy(dev_token) THEN rpc_post(r1, dev_token)
                                ELSE rpc_post(r1, rec.given_token)]
    /\ UNCHANGED <<env, now>>

\* lines 178-182 and 171-174
rpc_value(resp) == IF resp.json.is_json THEN resp.json ELSE TextValue(resp.text)

Finish(rec, result) == [rec EXCEPT !.pc = "done", !.result = result]

\* lines 123-182: the first response of the RPC
supabase_rpc_response(c) ==
    /\ calls[c].pc = "rpc1"
    /\ \E resp \in RpcResponses :
        LET rec == calls[c]
        IN  calls' = [calls EXCEPT ![c] =
                IF resp.raised THEN Finish([rec EXCEPT !.r = resp], Uncaught)
                ELSE IF resp.status >= 400
                THEN IF function_not_found(resp.text) /\ DOMAIN rec.args # {}
                     THEN [rec EXCEPT !.pc = "rpc2", !.r = resp,
                               !.sent = Append(@, Request("POST", "rpc", rec.function,
                                                  _headers(rec.auth_token),
                                                  retry_args(rec.args, resp.text)))]
                     ELSE Finish([rec EXCEPT !.r = resp],
                                 HTTPException(500, resp.text, rec.function))
                ELSE Finish([rec EXCEPT !.r = resp], Return(rpc_value(resp)))]
    /\ UNCHANGED <<env, now, cache, issued>>

\* the responses of the retry: the code reads only the status and the body
RetryResponses ==
    { Response(200, <<"[", "r", "]">>, JsonList(<<"r">>)),
      Response(200, <<"o", "k">>, NoValue),
      Response(399, T_denied, NoValue),
      Response(400, T_denied, NoValue),
      Response(404, PGRST202, NoValue),
      Raised }

\* the response of the retry, with the error raised from the retry's text
supabase_rpc_retry_response_r2_text(c) ==
    /\ calls[c].pc = "rpc2"
    /\ \E r2 \in RetryResponses :
        LET rec == calls[c]
        IN  calls' = [calls EXCEPT ![c] =
                IF r2.raised THEN Finish([rec EXCEPT !.r2 = r2], Uncaught)
                ELSE IF r2.status < 400
                THEN Finish([rec EXCEPT !.r2 = r2], Return(rpc_value(r2)))
                ELSE Finish([rec EXCEPT !.r2 = r2],
                            HTTPException(500, r2.text, rec.function))]
    /\ UNCHANGED <<env, now, cache, issued>>

\* lines 168-176: the response of the retry
supabase_rpc_retry_response(c) ==
    /\ calls[c].pc = "rpc2"
    /\ \E r2 \in RetryResponses :
        LET rec == calls[c]
        IN  calls' = [calls EXCEPT ![c] =
                IF r2.raised THEN Finish([rec EXCEPT !.r2 = r2], Uncaught)
                ELSE IF r2.status < 400
                THEN Finish([rec EXCEPT !.r2 = r2], Return(rpc_value(r2)))
                ELSE Finish([rec EXCEPT !.r2 = r2],
                            HTTPException(500, rec.r.text, rec.function))]
    /\ UNCHANGED <<env, now, cache, issued>>

\* the handler's result (or exception) is delivered and the call ends
respond(c) ==
    /\ calls[c].pc = "done"
    /\ calls' = [calls EXCEPT ![c] = IdleCall]
    /\ UNCHANGED <<env, now, cache, issued>>

\* time.time() advances
Tick ==
    /\ now < MaxTime
    /\ now' = now + 1
    /\ UNCHANGED <<env, cache, calls, issued>>

(***************************************************************************)
(* Inputs.                                                                 *)
(***************************************************************************)
u == <<"u">>

\* auth_token values a caller of a helper may pass
Tokens ==
    { BearerPrefix \o u, bearer_lc \o u, <<"B", "E", "A", "R", "E", "R", " ">> \o u,
      u, SP \o u \o SP, BearerPrefix \o u \o SP, SP, <<"B", "e", "a", "r", "e", "r">> }

\* Authorization header values of an incoming request (None: no header)
AuthHeaders == {NoneV, BearerPrefix \o u, bearer_lc \o u, u, <<>>}

\* Authorization header values of requests to the handlers that never read it
SomeAuthHeaders == {NoneV, BearerPrefix \o u}

PathIds == {<<"7">>}

Dict1(k, v) == [x \in {k} |-> v]

\* a direct call _supabase_rpc(function, args, auth_token)
_supabase_rpc(c) ==
    \E t \in Tokens \cup {NoneV, <<>>}, args \in {EmptyDict, Dict1(n_title, inbox)} :
        supabase_rpc_begin(c, "_supabase_rpc", NoInput, <<"f">>, args, t)

(***************************************************************************)
(* The CRUD helpers _supabase_get/_post/_patch/_delete and their handlers. *)
(***************************************************************************)
RestResponses ==
    { Response(200, <<"[", "]">>, JsonList(<<>>)),
      Response(200, <<"[", "r", "]">>, JsonList(<<"r">>)),
      Response(200, <<"{", "o", "}">>, JsonObject("o")),
      Response(399, <<"o", "k">>, NoValue),
      Response(400, T_denied, NoValue),
      Response(404, PGRST202, NoValue),
      Raised }

WithPrefer(h) == [h EXCEPT !.Prefer = <<"return=representation">>]

\* lines 60-63, 69-74, 80-85, 91-95: the one request of a CRUD helper
rest_begin(c, handler, in, req) ==
    /\ calls[c].pc = "idle"
    /\ calls' = [calls EXCEPT ![c] =
                    [IdleCall EXCEPT !.pc = "rest", !.handler = handler,
                                     !.in = in, !.sent = <<req>>]]
    /\ UNCHANGED <<env, now, cache, issued>>

\* a handler that answers without calling the backing store
answer(c, handler, in, result) ==
    /\ calls[c].pc = "idle"
    /\ calls' = [calls EXCEPT ![c] =
                    Finish([IdleCall EXCEPT !.handler = handler, !.in = in],
                           result)]
    /\ UNCHANGED <<env, now, cache, issued>>

by_id(path, pk) == path \o <<"?id=eq.">> \o pk

\* GET /
list_items(c) ==
    \E auth \in SomeAuthHeaders :
        IF ~Truthy(SUPABASE_URL) \/ ~Truthy(SUPABASE_KEY)
        THEN answer(c, "list_items", Input(auth, EmptyDict, NoneV),
                    HTTPExceptionText(500, <<"SUPABASE_URL or SUPABASE_KEY not configured">>))
        ELSE rest_begin(c, "list_items", Input(auth, EmptyDict, NoneV),
                        Request("GET", "rest", TABLE, _headers(NoneV), EmptyDict))

\* GET /items/{item_id}
get_item(c) ==
    \E auth \in SomeAuthHeaders, item_id \in PathIds :
        rest_begin(c, "get_item", Input(auth, EmptyDict, item_id),
                   Request("GET", "rest", by_id(TABLE, item_id), _headers(NoneV), EmptyDict))

\* POST /
create_item(c) ==
    \E auth \in SomeAuthHeaders, payload \in {EmptyDict, Dict1(n_title, inbox)} :
        rest_begin(c, "create_item", Input(auth, payload, NoneV),
                   Request("POST", "rest", TABLE, WithPrefer(_headers(NoneV)), payload))

\* PUT /items/{item_id}
update_item(c) ==
    \E auth \in SomeAuthHeaders, item_id \in PathIds, payload \in {Dict1(n_title, inbox)} :
        rest_begin(c, "update_item", Input(auth, payload, item_id),
                   Request("PATCH", "rest", by_id(TABLE, item_id),
                           WithPrefer(_headers(NoneV)), payload))

\* DELETE /items/{item_id}
delete_item(c) ==
    \E auth \in SomeAuthHeaders, item_id \in PathIds :
        rest_begin(c, "delete_item", Input(auth, EmptyDict, item_id),
                   Request("DELETE", "rest", by_id(TABLE, item_id), _headers(NoneV), EmptyDict))

\* row[0] if isinstance(row, list) and row else row
unwrap(row) ==
    IF row.list /\ row.items # <<>> THEN JsonObject(row.items[1]) ELSE row

\* what the handler makes of the value its CRUD helper returned
rest_result(handler, v) ==
    CASE handler = "get_item" ->
            IF v.list /\ v.items = <<>>
            THEN HTTPExceptionText(404, <<"item not found">>)
            ELSE IF v.list THEN Return(JsonObject(v.items[1]))
            ELSE Uncaught
      [] handler \in {"create_item", "update_item"} -> Return(unwrap(v))
      [] OTHER -> Return(v)

\* lines 64-66, 75-77, 86-88, 96-98: the response of a CRUD helper
rest_response(c) ==
    /\ calls[c].pc = "rest"
    /\ \E resp \in RestResponses :
        LET rec == calls[c]
        IN  calls' = [calls EXCEPT ![c] =
                IF resp.raised THEN Finish([rec EXCEPT !.r = resp], Uncaught)
                ELSE IF resp.status >= 400
                THEN Finish([rec EXCEPT !.r = resp], HTTPException(500, resp.text, NoneV))
                ELSE IF rec.handler = "delete_item"
                THEN Finish([rec EXCEPT !.r = resp], Return(JsonObject("deleted")))
                ELSE IF ~resp.json.is_json THEN Finish([rec EXCEPT !.r = resp], Uncaught)
                ELSE Finish([rec EXCEPT !.r = resp], rest_result(rec.handler, resp.json))]
    /\ UNCHANGED <<env, now, cache, issued>>

(***************************************************************************)
(* The handlers backed by RPC functions.  A handler is one action: the     *)
(* incoming request is its input, and it runs to the first await of        *)
(* _supabase_rpc.                                                          *)
(***************************************************************************)
n_list_id == <<"l", "i", "s", "t", "_", "i", "d">>

n_task_id == <<"t", "a", "s", "k", "_", "i", "d">>

n_notes == <<"n", "o", "t", "e", "s">>

n_due_date == <<"d", "u", "e", "_", "d", "a", "t", "e">>

n_due_time == <<"d", "u", "e", "_", "t", "i", "m", "e">>

n_is_important == <<"i", "s", "_", "i", "m", "p", "o", "r", "t", "a", "n", "t">>

n_priority == <<"p", "r", "i", "o", "r", "i", "t", "y">>

n_sort_order == <<"s", "o", "r", "t", "_", "o", "r", "d", "e", "r">>

\* bodies of the PUT requests ("payload or {}" is the payload itself)
UpdatePayloads ==
    { EmptyDict, Dict1(n_title, inbox),
      [k \in {n_id, n_title} |-> IF k = n_id THEN <<"9">> ELSE work] }

\* {"id": <path id>, **(payload or {})}
update_args(id, payload) == Merge(Dict1(n_id, id), payload)

\* bodies of the pass-through POST requests
PassPayloads ==
    { EmptyDict,
      [k \in {n_title, n_pos} |-> IF k = n_title THEN inbox ELSE <<"3">>] }

\* GET /lists
lists_read(c) ==
    \E auth \in SomeAuthHeaders :
        supabase_rpc_begin(c, "lists_read", Input(auth, EmptyDict, NoneV),
                           <<"lists_read">>, EmptyDict, NoneV)

\* PUT /lists/{list_id}
lists_update(c) ==
    \E auth \in SomeAuthHeaders, id \in PathIds, payload \in UpdatePayloads :
        supabase_rpc_begin(c, "lists_update", Input(auth, payload, id),
                           <<"lists_update">>, update_args(id, payload), NoneV)

\* DELETE /lists/{list_id}
lists_delete(c) ==
    \E auth \in SomeAuthHeaders, id \in PathIds :
        supabase_rpc_begin(c, "lists_delete", Input(auth, EmptyDict, id),
                           <<"lists_delete">>, Dict1(n_id, id), NoneV)

\* GET /tasks?list_id=
tasks_read(c) ==
    \E auth \in SomeAuthHeaders, id \in PathIds :
        supabase_rpc_begin(c, "tasks_read", Input(auth, EmptyDict, id),
                           <<"tasks_read">>, Dict1(P(n_list_id), id), NoneV)

\* GET /tasks/{task_id}
task_read_one(c) ==
    \E auth \in SomeAuthHeaders, id \in PathIds :
        supabase_rpc_begin(c, "task_read_one", Input(auth, EmptyDict, id),
                           <<"task_read_one">>, Dict1(P(n_task_id), id), NoneV)

\* PUT /tasks/{task_id}
tasks_update(c) ==
    \E auth \in SomeAuthHeaders, id \in PathIds, payload \in UpdatePayloads :
        supabase_rpc_begin(c, "tasks_update", Input(auth, payload, id),
                           <<"tasks_update">>, update_args(id, payload), NoneV)

\* DELETE /tasks/{task_id}
tasks_delete(c) ==
    \E auth \in SomeAuthHeaders, id \in PathIds :
        supabase_rpc_begin(c, "tasks_delete", Input(auth, EmptyDict, id),
                           <<"tasks_delete">>, Dict1(n_id, id), NoneV)

\* GET /tags
tags_read_all(c) ==
    \E auth \in SomeAuthHeaders :
        supabase_rpc_begin(c, "tags_read_all", Input(auth, EmptyDict, NoneV),
                           <<"tags_read_all">>, EmptyDict, NoneV)

\* PUT /tags/{tag_id}
tags_update(c) ==
    \E auth \in SomeAuthHeaders, id \in PathIds, payload \in UpdatePayloads :
        supabase_rpc_begin(c, "tags_update", Input(auth, payload, id),
                           <<"tags_update">>, update_args(id, payload), NoneV)

\* DELETE /tags/{tag_id}
tags_delete(c) ==
    \E auth \in SomeAuthHeaders, id \in PathIds :
        supabase_rpc_begin(c, "tags_delete", Input(auth, EmptyDict, id),
                           <<"tags_delete">>, Dict1(n_id, id), NoneV)

\* PUT /reminders/{reminder_id}
reminders_update(c) ==
    \E auth \in SomeAuthHeaders, id \in PathIds, payload \in UpdatePayloads :
        supabase_rpc_begin(c, "reminders_update", Input(auth, payload, id),
                           <<"reminders_update">>, update_args(id, payload), NoneV)

\* DELETE /reminders/{reminder_id}
reminders_delete(c) ==
    \E auth \in SomeAuthHeaders, id \in PathIds :
        supabase_rpc_begin(c, "reminders_delete", Input(auth, EmptyDict, id),
                           <<"reminders_delete">>, Dict1(n_id, id), NoneV)

\* POST /tags/assign
tags_assign(c) ==
    \E auth \in AuthHeaders, payload \in PassPayloads :
        supabase_rpc_begin(c, "tags_assign", Input(auth, payload, NoneV),
                           <<"tags_assign">>, payload, auth)

\* POST /tags/unassign
tags_unassign(c) ==
    \E auth \in AuthHeaders, payload \in PassPayloads :
        supabase_rpc_begin(c, "tags_unassign", Input(auth, payload, NoneV),
                           <<"tags_unassign">>, payload, auth)

\* POST /reminders
reminders_create(c) ==
    \E auth \in AuthHeaders, payload \in PassPayloads :
        supabase_rpc_begin(c, "reminders_create", Input(auth, payload, NoneV),
                           <<"reminders_create">>, payload, auth)

\* POST /rpc/{function}
rpc_call(c) ==
    \E auth \in AuthHeaders, payload \in PassPayloads :
        supabase_rpc_begin(c, "rpc_call", Input(auth, payload, NoneV),
                           <<"f">>, payload, auth)

\* the choice of lines 297-306 made by truthiness: title or p_title
pick_truthy(payload, k) ==
    LET v == Get(payload, k)
    IN  IF v \in {NoneV, <<>>, <<"0">>} THEN Get(payload, P(k)) ELSE v

\* lines 297-306: the friendly key's value, else the p_ key's value
pick(payload, k) ==
    LET v == Get(payload, k)
    IN  IF v = NoneV THEN Get(payload, P(k)) ELSE v

\* the field types of the pydantic models
IsStr(v) == v \in StrValues

IsOptStr(v) == v = NoneV \/ v \in StrValues

IsOptInt(v) == v = NoneV \/ v \in IntValues

IsNone(v) == v = NoneV

\* a dict literal: the keys ks[i] with the values vs[i]
Dict(ks, vs) ==
    [k \in {ks[i] : i \in 1..Len(ks)} |->
        vs[CHOOSE i \in 1..Len(ks) : ks[i] = k]]

\* bodies of POST /lists
ListsCreatePayloads ==
    { Dict1(n_title, inbox),
      Dict(<<P(n_title), P(n_color), P(n_position)>>, <<work, red, <<"3">>>>),
      Dict(<<n_title, P(n_title), n_position, P(n_position)>>,
           <<inbox, work, <<"0">>, <<"3">>>>),
      Dict(<<n_title, P(n_title)>>, <<NoneV, work>>),
      Dict1(n_color, red),
      EmptyDict,
      Dict(<<n_title, n_position>>, <<inbox, red>>) }

\* POST /lists
\* the dev override taken whatever the Authorization header (line 332 without
\* "not auth")
dev_override_any_auth(auth) ==
    /\ Truthy(env.DEV_STATIC_USER_ID)
    /\ env.DEV_ALLOW_RPC_OVERRIDES = <<"1">>

\* lines 330-332: not auth and dev_user and dev_override_allowed
dev_override(auth) ==
    /\ ~Truthy(auth)
    /\ Truthy(env.DEV_STATIC_USER_ID)
    /\ env.DEV_ALLOW_RPC_OVERRIDES = <<"1">>

lists_create(c) ==
    \E auth \in AuthHeaders, payload \in ListsCreatePayloads :
        LET title    == pick(payload, n_title)
            color    == pick(payload, n_color)
            position == pick(payload, n_position)
            rpc_args == Dict(<<P(n_title), P(n_color), P(n_position)>>,
                             <<title, color, position>>)
            dev_user == env.DEV_STATIC_USER_ID
        IN  IF ~(IsStr(title) /\ IsOptStr(color) /\ IsOptInt(position))
            THEN answer(c, "lists_create", Input(auth, payload, NoneV),
                        HTTPExceptionText(400, <<"validation error">>))
            ELSE IF dev_override(auth)
            THEN supabase_rpc_begin(c, "lists_create", Input(auth, payload, NoneV), <<"lists_create_dev">>,
                                    Merge(rpc_args, Dict1(P(n_user), dev_user)), NoneV)
            ELSE supabase_rpc_begin(c, "lists_create", Input(auth, payload, NoneV), <<"lists_create">>,
                                    rpc_args, auth)

\* bodies of POST /tasks; none carries due_date, due_time, is_important or
\* sort_order, whose values the handler would convert
TasksCreatePayloads ==
    { Dict(<<n_title, n_list_id>>, <<inbox, work>>),
      Dict(<<P(n_title), P(n_list_id), P(n_priority), n_notes>>,
           <<inbox, work, <<"3">>, red>>),
      Dict1(n_title, inbox) }

\* POST /tasks
tasks_create(c) ==
    \E auth \in AuthHeaders, payload \in TasksCreatePayloads :
        LET title        == pick(payload, n_title)
            list_id      == pick(payload, n_list_id)
            notes        == pick(payload, n_notes)
            due_date     == pick(payload, n_due_date)
            due_time     == pick(payload, n_due_time)
            is_important == pick(payload, n_is_important)
            priority     == pick(payload, n_priority)
            sort_order   == pick(payload, n_sort_order)
            rpc_args ==
                Dict(<<P(n_title), P(n_list_id), P(n_notes), P(n_due_date),
                       P(n_due_time), P(n_is_important), P(n_priority), P(n_sort_order)>>,
                     <<title, list_id, notes, NoneV, NoneV, is_important, priority,
                       sort_order>>)
        IN  IF ~(/\ IsStr(title) /\ IsStr(list_id) /\ IsOptStr(notes)
                 /\ IsNone(due_date) /\ IsNone(due_time) /\ IsNone(is_important)
                 /\ IsOptInt(priority) /\ IsNone(sort_order))
            THEN answer(c, "tasks_create", Input(auth, payload, NoneV),
                        HTTPExceptionText(400, <<"validation error">>))
            ELSE supabase_rpc_begin(c, "tasks_create", Input(auth, payload, NoneV), <<"tasks_create">>,
                                    rpc_args, auth)

\* bodies of POST /tags
TagsCreatePayloads ==
    { Dict1(n_name, work),
      Dict(<<P(n_name), P(n_color)>>, <<work, red>>),
      Dict1(n_color, red) }

\* POST /tags
tags_create(c) ==
    \E auth \in AuthHeaders, payload \in TagsCreatePayloads :
        LET name     == pick(payload, n_name)
            color    == pick(payload, n_color)
            rpc_args == Dict(<<P(n_name), P(n_color)>>, <<name, color>>)
        IN  IF ~(IsStr(name) /\ IsOptStr(color))
            THEN answer(c, "tags_create", Input(auth, payload, NoneV),
                        HTTPExceptionText(400, <<"validation error">>))
            ELSE supabase_rpc_begin(c, "tags_create", Input(auth, payload, NoneV), <<"tags_create">>,
                                    rpc_args, auth)

(***************************************************************************)
(* Specifications.                                                         *)
(***************************************************************************)
EmptyCache == [token |-> NoneV, expires_at |-> 0]

\* the router with no complete pair of dev credentials: every handler
Init ==
    /\ env \in {e \in EnvConfigs :
                  ~(Truthy(e.SUPABASE_DEV_EMAIL) /\ Truthy(e.SUPABASE_DEV_PASSWORD))}
    /\ now = 0
    /\ cache = EmptyCache
    /\ calls = [c \in Calls |-> IdleCall]
    /\ issued = NoIssue

Handlers(c) ==
    \/ list_items(c)
    \/ get_item(c)
    \/ create_item(c)
    \/ update_item(c)
    \/ delete_item(c)
    \/ lists_read(c)
    \/ lists_create(c)
    \/ lists_update(c)
    \/ lists_delete(c)
    \/ tasks_read(c)
    \/ task_read_one(c)
    \/ tasks_create(c)
    \/ tasks_update(c)
    \/ tasks_delete(c)
    \/ tags_read_all(c)
    \/ tags_create(c)
    \/ tags_update(c)
    \/ tags_delete(c)
    \/ tags_assign(c)
    \/ tags_unassign(c)
    \/ reminders_create(c)
    \/ reminders_update(c)
    \/ reminders_delete(c)
    \/ rpc_call(c)

Next ==
    \E c \in {"a"} :
        \/ Handlers(c)
        \/ _supabase_rpc(c)
        \/ rest_response(c)
        \/ supabase_rpc_response(c)
        \/ supabase_rpc_retry_response(c)
        \/ respond(c)

Spec == Init /\ [][Next]_vars

\* the dev-JWT path: every configuration, the clock, and the calls of
\* _supabase_rpc made directly, by GET /lists and by POST /rpc/{function}
InitDev ==
    /\ env \in EnvConfigs
    /\ now = 0
    /\ cache = EmptyCache
    /\ calls = [c \in Calls |-> IdleCall]
    /\ issued = NoIssue

NextDev ==
    \/ Tick
    \/ \E c \in {"a"} :
        \/ _supabase_rpc(c)
        \/ lists_read(c)
        \/ rpc_call(c)
        \/ get_dev_jwt_response(c)
        \/ supabase_rpc_response(c)
        \/ supabase_rpc_retry_response(c)
        \/ respond(c)

SpecDev == InitDev /\ [][NextDev]_vars

(***************************************************************************)
(* Concurrent calls: two requests are served by the one event loop, with   *)
(* dev credentials configured, and interleave at the awaited requests.     *)
(* Each is GET /lists without a token, which the backing store answers     *)
(* with a list.                                                            *)
(***************************************************************************)
OkList == Response(200, <<"[", "r", "]">>, JsonList(<<"r">>))

InitConc ==
    /\ env \in {e \in EnvConfigs :
                  Truthy(e.SUPABASE_DEV_EMAIL) /\ Truthy(e.SUPABASE_DEV_PASSWORD)}
    /\ now = 0
    /\ cache = EmptyCache
    /\ calls = [c \in Calls |-> IdleCall]
    /\ issued = NoIssue

NextConc ==
    \/ Tick
    \/ \E c \in Calls :
        \/ lists_read(c) /\ calls'[c].in.auth = NoneV
        \/ get_dev_jwt_response(c)
        \/ supabase_rpc_response(c) /\ calls'[c].r = OkList
        \/ respond(c)

SpecConc == InitConc /\ [][NextConc]_vars

(***************************************************************************)
(* Properties.                                                             *)
(***************************************************************************)
\* the requests of a call to the RPC URL, and to the auth endpoint
RpcPosts(rec) == SelectSeq(rec.sent, LAMBDA q : q.kind = "rpc")

AuthPosts(rec) == SelectSeq(rec.sent, LAMBDA q : q.kind = "auth")

RpcHandlers ==
    { "lists_read", "lists_create", "lists_update", "lists_delete", "tasks_read",
      "task_read_one", "tasks_create", "tasks_update", "tasks_delete",
      "tags_read_all", "tags_create", "tags_update", "tags_delete", "tags_assign",
      "tags_unassign", "reminders_create", "reminders_update", "reminders_delete",
      "rpc_call" }

\* a call of _supabase_rpc, made directly or by a handler
IsRpcCall(rec) == rec.handler \in RpcHandlers \cup {"_supabase_rpc"} /\ rec.sent # <<>>

\* C1 as stated: a call of _supabase_rpc with a non-empty auth_token sends only
\* RPC requests, each with the token as Authorization: as given when the token
\* starts with "Bearer ", otherwise trimmed and prefixed with "Bearer "; never
\* the service-role key; no request to the auth endpoint.
C1_AsStated ==
    \A c \in Calls :
        LET rec == calls[c]
        IN  (IsRpcCall(rec) /\ Truthy(rec.given_token)) =>
                \A i \in 1..Len(rec.sent) :
                    /\ rec.sent[i].kind = "rpc"
                    /\ rec.sent[i].Authorization =
                          IF StartsWith(rec.given_token, BearerPrefix)
                          THEN rec.given_token
                          ELSE BearerPrefix \o Strip(rec.given_token)
                    /\ rec.sent[i].Authorization # BearerPrefix \o ServiceKey

\* the Authorization value of a caller's token: the token trimmed, and prefixed
\* with "Bearer " unless it starts with "bearer " in any letter case
CallerAuthorization(t) ==
    LET tok == Strip(t)
    IN  IF Len(tok) >= 7 /\ Lower(SubSeq(tok, 1, 7)) = bearer_lc
        THEN tok
        ELSE <<"B", "e", "a", "r", "e", "r", " ">> \o tok

\* C1 (amended): a call of _supabase_rpc with a non-empty auth_token sends only
\* RPC requests (the retry included), each with the trimmed token as
\* Authorization, prefixed with "Bearer " unless it already starts with
\* "bearer " in any letter case; never the service-role key; it makes no
\* dev-JWT lookup and no request to the auth endpoint.
C1_CallerTokenForwarded ==
    \A c \in Calls :
        LET rec == calls[c]
        IN  (IsRpcCall(rec) /\ Truthy(rec.given_token)) =>
                /\ rec.pc # "auth"
                /\ rec.jwt_r = NoAuthResponse
                /\ rec.auth_token = rec.given_token
                /\ \A i \in 1..Len(rec.sent) :
                    /\ rec.sent[i].kind = "rpc"
                    /\ rec.sent[i].Authorization = CallerAuthorization(rec.given_token)
                    /\ rec.sent[i].Authorization # BearerPrefix \o ServiceKey

\* C1 witness: with dev credentials configured and a valid cached dev token, a
\* call with the token "bearer u" has sent its RPC request and the retry
C1_Witness ==
    \E c \in Calls :
        /\ calls[c].given_token = bearer_lc \o u
        /\ Len(calls[c].sent) = 2
        /\ dev_credentials
        /\ cache_valid(now)
        /\ Truthy(SUPABASE_KEY)

\* C2 as stated: for every RPC-forwarding endpoint, when the incoming request
\* carries an Authorization bearer token, every request to the backing store
\* carries that token as Authorization and never the service-role key.
C2_AsStated ==
    \A c \in Calls :
        LET rec == calls[c]
        IN  (rec.handler \in RpcHandlers /\ StartsWith(rec.in.auth, BearerPrefix)) =>
                \A i \in 1..Len(rec.sent) :
                    /\ rec.sent[i].Authorization = rec.in.auth
                    /\ rec.sent[i].Authorization # BearerPrefix \o ServiceKey

\* a step in which call c starts a call of _supabase_rpc without a caller token
StartsWithoutToken(c) ==
    /\ calls[c].pc = "idle"
    /\ IsRpcCall(calls'[c])
    /\ ~Truthy(calls'[c].given_token)

\* C3: with dev email and password configured and no caller token, the call
\* takes the cached token and sends no request to the auth endpoint if and only
\* if the cache holds a token and its expires_at minus 10 is strictly greater
\* than the current time; otherwise it sends the auth request.
C3_CacheHitIffValid ==
    [][\A c \in Calls :
        (StartsWithoutToken(c) /\ dev_credentials) =>
            LET fresh == /\ cache.token # NoneV
                         /\ cache.token # <<>>
                         /\ cache.expires_at - 10 > now
                new == calls'[c]
            IN  /\ fresh => /\ new.pc = "rpc1"
                            /\ AuthPosts(new) = <<>>
                            /\ new.auth_token = cache.token
                            /\ Len(new.sent) = 1
                            /\ new.sent[1].Authorization = BearerPrefix \o cache.token
                /\ ~fresh => /\ new.pc = "auth"
                             /\ RpcPosts(new) = <<>>
                             /\ Len(AuthPosts(new)) = 1
                /\ cache' = cache]_vars

\* C3 witness: a call has taken the cached token at the last moment it is
\* valid (expires_at - 10 = now + 1), after the clock has advanced
C3_Witness ==
    \E c \in Calls :
        /\ calls[c].pc = "rpc1"
        /\ ~Truthy(calls[c].given_token)
        /\ dev_credentials
        /\ AuthPosts(calls[c]) = <<>>
        /\ calls[c].auth_token = cache.token
        /\ cache.expires_at - CacheMargin = now + 1
        /\ now > 0

\* a response of the auth endpoint below 400 that contains an access_token
HasAccessToken(r) ==
    ~r.raised /\ r.status < 400 /\ r.is_json /\ r.access_token \in {d1, d2}

\* C4: with dev credentials configured, no caller token and no valid cached
\* token, the call sends exactly one password-grant request to the auth
\* endpoint; if the response is below 400 and contains an access_token, the
\* cache becomes (that token, request-start time + expires_in, 3600 when
\* expires_in is absent or zero), and the token is the Authorization of the RPC.
C4_FreshTokenCached ==
    /\ [](\A c \in Calls :
            LET rec == calls[c]
            IN  /\ Len(AuthPosts(rec)) <= 1
                /\ rec.pc = "auth" =>
                      /\ Len(rec.sent) = 1
                      /\ rec.sent[1].kind = "auth"
                      /\ rec.sent[1].method = "POST"
                      /\ rec.sent[1].name = <<"token?grant_type=password">>
                      /\ rec.sent[1].body[<<"email">>] = env.SUPABASE_DEV_EMAIL
                      /\ rec.sent[1].body[<<"password">>] = env.SUPABASE_DEV_PASSWORD
                /\ HasAccessToken(rec.jwt_r) =>
                      /\ rec.auth_token = rec.jwt_r.access_token
                      /\ \A i \in 1..Len(RpcPosts(rec)) :
                            RpcPosts(rec)[i].Authorization =
                                BearerPrefix \o rec.jwt_r.access_token)
    /\ [][\A c \in Calls :
            /\ (StartsWithoutToken(c) /\ calls'[c].pc = "auth") =>
                  calls'[c].jwt_now = now
            /\ (calls[c].pc = "auth" /\ calls'[c].pc # "auth") =>
                  /\ calls'[c].pc = "rpc1"
                  /\ Len(RpcPosts(calls'[c])) = 1
                  /\ IF HasAccessToken(calls'[c].jwt_r)
                     THEN cache' =
                            [token |-> calls'[c].jwt_r.access_token,
                             expires_at |->
                                calls[c].jwt_now +
                                (IF calls'[c].jwt_r.expires_in \in {Absent, 0}
                                 THEN 3600
                                 ELSE calls'[c].jwt_r.expires_in)]
                     ELSE TRUE]_vars

\* C4 witness: an auth request started at time 1 was answered at time 2 with
\* the token d2 and expires_in 0; the cache holds (d2, 1 + 3600) and the RPC
\* was posted
C4_Witness ==
    \E c \in Calls :
        /\ calls[c].pc = "rpc1"
        /\ calls[c].jwt_r.access_token = d2
        /\ calls[c].jwt_r.expires_in = 0
        /\ cache = [token |-> d2, expires_at |-> DefaultExpiresIn + 1]
        /\ now = 2

IsNotFound(r) ==
    /\ ~r.raised
    /\ r.status >= 400
    /\ \/ Contains(r.text, <<"PGRST202">>)
       \/ Contains(r.text, <<"Could not find the function">>)

\* the first response of the call has been handled
Answered(rec) == IsRpcCall(rec) /\ rec.pc \in {"rpc2", "done"}

\* the argument object with every key prefixed by p_ and every value unchanged
IsPrefixed(body, args) ==
    /\ DOMAIN body = {<<"p", "_">> \o k : k \in DOMAIN args}
    /\ \A k \in DOMAIN args : body[<<"p", "_">> \o k] = args[k]

\* C6 as stated: whenever the first response is a function-not-found error, the
\* call retries exactly once against the same function, for every argument
\* object including the empty one.
C6_AsStated ==
    \A c \in Calls :
        LET rec == calls[c]
        IN  (Answered(rec) /\ IsNotFound(rec.r)) =>
                /\ Len(RpcPosts(rec)) = 2
                /\ RpcPosts(rec)[2].name = RpcPosts(rec)[1].name

\* C6 (amended): whenever the first response is a function-not-found error and
\* the argument object is not empty, the call retries exactly once against the
\* same function with the parameter names remapped (p_-prefixed when the text
\* carries no hint); with the empty argument object it does not retry and
\* raises the 500 error.
C6_RetryOnceWhenArgs ==
    \A c \in Calls :
        LET rec == calls[c]
            posts == RpcPosts(rec)
        IN  /\ Len(posts) <= 2
            /\ (Answered(rec) /\ IsNotFound(rec.r) /\ DOMAIN rec.args # {}) =>
                    /\ Len(posts) = 2
                    /\ posts[2].name = posts[1].name
                    /\ posts[2].method = "POST"
                    /\ posts[2].Authorization = posts[1].Authorization
                    /\ posts[1].body = rec.args
                    /\ ~Contains(rec.r.text, HintPhrase) =>
                          IsPrefixed(posts[2].body, rec.args)
            /\ (Answered(rec) /\ IsNotFound(rec.r) /\ DOMAIN rec.args = {}) =>
                    /\ rec.pc = "done"
                    /\ Len(posts) = 1
                    /\ rec.result.kind = "HTTPException"
                    /\ rec.result.status_code = 500

\* C6 witness: a first response "Could not find the function f" to a call with
\* arguments, and the retry is sent with the p_-prefixed arguments
C6_Witness ==
    \E c \in Calls :
        /\ calls[c].pc = "rpc2"
        /\ calls[c].r.text = CouldNotFind \o SP \o <<"f">>
        /\ DOMAIN calls[c].args = {n_id, n_title}
        /\ DOMAIN calls[c].sent[2].body = {P(n_id), P(n_title)}

CrudHandlers == {"list_items", "get_item", "create_item", "update_item", "delete_item"}

Failed(r) == ~r.raised /\ r.status >= 400

\* C7: a failure of the backing store (status >= 400) is surfaced as an HTTP
\* 500 error whose detail carries the upstream text as supabase_error; the CRUD
\* helpers send exactly one request per call and never retry; when an RPC retry
\* also fails, the text is that of the first failing response, with the
\* function name.
C7_FailureSurfacedAs500 ==
    \A c \in Calls :
        LET rec == calls[c]
        IN  /\ rec.handler \in CrudHandlers =>
                /\ Len(rec.sent) <= 1
                /\ rec.pc = "rest" => Len(rec.sent) = 1
                /\ (rec.pc = "done" /\ rec.r # NoResponse) => Len(rec.sent) = 1
                /\ (rec.pc = "done" /\ Failed(rec.r)) =>
                      /\ rec.result.kind = "HTTPException"
                      /\ rec.result.status_code = 500
                      /\ rec.result.supabase_error = rec.r.text
            /\ (IsRpcCall(rec) /\ rec.pc = "done" /\ Failed(rec.r)
                /\ Len(RpcPosts(rec)) = 1) =>
                      /\ rec.result.kind = "HTTPException"
                      /\ rec.result.status_code = 500
                      /\ rec.result.supabase_error = rec.r.text
                      /\ rec.result.function = rec.function
            /\ (IsRpcCall(rec) /\ rec.pc = "done" /\ Failed(rec.r2)) =>
                      /\ Len(RpcPosts(rec)) = 2
                      /\ Failed(rec.r)
                      /\ rec.result.kind = "HTTPException"
                      /\ rec.result.status_code = 500
                      /\ rec.result.supabase_error = rec.r.text
                      /\ rec.result.function = rec.function

\* C7 witness: the first response was 404 with the text PGRST202, the retry
\* failed with 400 and another text, and the call ended with the 500 error
C7_Witness ==
    \E c \in Calls :
        /\ calls[c].pc = "done"
        /\ calls[c].r.status = 404
        /\ calls[c].r.text = PGRST202
        /\ calls[c].r2.status = 400
        /\ calls[c].r2.text = T_denied
        /\ calls[c].result.kind = "HTTPException"

\* the value lists_create takes for a field: the friendly key's when present
\* and not null, otherwise the p_ key's (null when that is missing too)
FieldOf(payload, k) ==
    IF k \in DOMAIN payload /\ payload[k] # NoneV
    THEN payload[k]
    ELSE IF (<<"p", "_">> \o k) \in DOMAIN payload
    THEN payload[<<"p", "_">> \o k]
    ELSE NoneV

ListsCreateKeys == {P(n_title), P(n_color), P(n_position)}

DevOverride(rec) ==
    /\ rec.in.auth \in {NoneV, <<>>}
    /\ env.DEV_STATIC_USER_ID \notin {NoneV, <<>>}
    /\ env.DEV_ALLOW_RPC_OVERRIDES = <<"1">>

C9_AtMostOneRetry ==
    \A c \in Calls :
        LET rec == calls[c]
            posts == RpcPosts(rec)
        IN  IsRpcCall(rec) =>
                /\ Len(posts) <= 2
                /\ \A i \in 1..Len(posts) :
                      posts[i].method = "POST" /\ posts[i].name = rec.function
                /\ Len(posts) = 2 => IsNotFound(rec.r)
                /\ (Answered(rec) /\ Failed(rec.r) /\ ~IsNotFound(rec.r)) =>
                      /\ rec.pc = "done"
                      /\ Len(posts) = 1
                      /\ rec.result.kind = "HTTPException"
                      /\ rec.result.status_code = 500
                /\ (rec.pc = "done" /\ Len(posts) = 2 /\ Failed(rec.r2)) =>
                      rec.result.kind = "HTTPException"
                /\ rec.pc = "rpc2" => Len(posts) = 2
                /\ rec.pc = "rpc1" => Len(posts) = 1

\* C9 witness: the retry has failed and the call has ended with two POSTs
C9_Witness ==
    \E c \in Calls :
        /\ calls[c].pc = "done"
        /\ Len(RpcPosts(calls[c])) = 2
        /\ Failed(calls[c].r2)
        /\ calls[c].result.status_code = 500

\* the text carries the hint followed by a parenthesized parameter list
HasHintList(text) ==
    LET h == Find(text, HintPhrase, 0)
    IN  /\ h >= 0
        /\ LET i == Find(text, <<"(">>, h)
           IN  i >= 0 /\ Find(text, <<")">>, i) >= 0

\* the hinted parameter names: the last word of each non-blank, comma-separated
\* item between the hint's parentheses
HintedNames(text) ==
    LET i == Find(text, <<"(">>, Find(text, HintPhrase, 0))
        j == Find(text, <<")">>, i)
        items == Split(Slice(text, i + 1, j), ",")
    IN  {LastWord(Strip(items[k])) : k \in {x \in 1..Len(items) : Strip(items[x]) # <<>>}}

Unprefixed(n) == IF StartsWith(n, <<"p", "_">>) THEN Slice(n, 2, Len(n)) ELSE n

ZeroOrNull(b) ==
    IF \/ Contains(b, <<"p", "o", "s", "i", "t", "i", "o", "n">>)
       \/ Contains(b, <<"o", "r", "d", "e", "r">>)
       \/ Contains(b, <<"p", "o", "s">>)
    THEN <<"0">>
    ELSE NoneV

\* the retry has been sent
Retried(rec) == IsRpcCall(rec) /\ Len(RpcPosts(rec)) = 2

\* C10 as stated: with a hint and its parameter list in the error text, the
\* retry body's keys are the hinted names, each with the caller's value for the
\* name without its leading p_, else 0 if that name contains position, order
\* or pos, else null; without a hint the body is the caller's arguments with
\* every key prefixed by p_.
C10_AsStated ==
    \A c \in Calls :
        LET rec  == calls[c]
            body == RpcPosts(rec)[2].body
        IN  Retried(rec) =>
                /\ HasHintList(rec.r.text) =>
                      /\ DOMAIN body = HintedNames(rec.r.text)
                      /\ \A n \in DOMAIN body :
                            body[n] = IF Unprefixed(n) \in DOMAIN rec.args
                                      THEN rec.args[Unprefixed(n)]
                                      ELSE ZeroOrNull(Unprefixed(n))
                /\ ~Contains(rec.r.text, HintPhrase) => IsPrefixed(body, rec.args)

\* C10 (amended): as stated, except that a hinted name whose unprefixed form
\* is not a caller key but is a caller key prefixed by p_ (the hinted name is
\* that key prefixed twice) takes that caller key's value; and a hint without
\* a parenthesized list is treated as no hint.
C10_RetryBody ==
    \A c \in Calls :
        LET rec  == calls[c]
            body == RpcPosts(rec)[2].body
        IN  Retried(rec) =>
                /\ HasHintList(rec.r.text) =>
                      /\ DOMAIN body = HintedNames(rec.r.text)
                      /\ \A n \in DOMAIN body :
                            body[n] =
                                IF Unprefixed(n) \in DOMAIN rec.args
                                THEN rec.args[Unprefixed(n)]
                                ELSE IF Unprefixed(n) # n
                                        /\ Unprefixed(Unprefixed(n)) # Unprefixed(n)
                                        /\ Unprefixed(Unprefixed(n)) \in DOMAIN rec.args
                                THEN rec.args[Unprefixed(Unprefixed(n))]
                                ELSE ZeroOrNull(Unprefixed(n))
                /\ ~HasHintList(rec.r.text) => IsPrefixed(body, rec.args)

\* C10 witness: the hint lists p_title and p_position and the caller's
\* arguments are title and pos: the retry body is p_title with the caller's
\* title and p_position 0, and pos is dropped
C10_Witness ==
    \E c \in Calls :
        /\ calls[c].pc = "rpc2"
        /\ calls[c].r.text = HintText(P(n_title) \o <<",", " ">> \o P(n_position))
        /\ DOMAIN calls[c].args = {n_title, n_pos}
        /\ DOMAIN calls[c].sent[2].body = {P(n_title), P(n_position)}
        /\ calls[c].sent[2].body[P(n_title)] = inbox
        /\ calls[c].sent[2].body[P(n_position)] = <<"0">>

\* the backing function lists_create_dev, called with a p_user argument
CallsDev(rec) ==
    /\ rec.function = <<"lists_create_dev">>
    /\ P(n_user) \in DOMAIN rec.args

\* C11 as stated: lists_create calls lists_create_dev with an added p_user
\* argument if and only if the request has no Authorization header,
\* DEV_STATIC_USER_ID is set and DEV_ALLOW_RPC_OVERRIDES is "1"; in every other
\* case it calls lists_create with the caller's Authorization forwarded and no
\* p_user argument.
C11_AsStated ==
    \A c \in Calls :
        LET rec == calls[c]
            override == /\ rec.in.auth = NoneV
                        /\ env.DEV_STATIC_USER_ID # NoneV
                        /\ env.DEV_ALLOW_RPC_OVERRIDES = <<"1">>
        IN  (rec.handler = "lists_create" /\ rec.sent # <<>>) =>
                /\ CallsDev(rec) <=> override
                /\ ~override =>
                      /\ rec.function = <<"lists_create">>
                      /\ rec.given_token = rec.in.auth
                      /\ P(n_user) \notin DOMAIN rec.args

\* C11 (amended): lists_create calls lists_create_dev with an added p_user
\* argument (the value of DEV_STATIC_USER_ID, and no caller token) if and only
\* if the request has no Authorization header or an empty one,
\* DEV_STATIC_USER_ID is set to a non-empty value and DEV_ALLOW_RPC_OVERRIDES
\* is "1"; in every other case in which it makes a call it calls lists_create
\* with the caller's Authorization forwarded and no p_user argument; a caller
\* who supplies a token never triggers the override, and every request of the
\* call carries that token.
C11_DevOverrideOnlyWithoutToken ==
    \A c \in Calls :
        LET rec == calls[c]
            override == /\ rec.in.auth \in {NoneV, <<>>}
                        /\ env.DEV_STATIC_USER_ID \notin {NoneV, <<>>}
                        /\ env.DEV_ALLOW_RPC_OVERRIDES = <<"1">>
        IN  (rec.handler = "lists_create" /\ rec.sent # <<>>) =>
                /\ CallsDev(rec) <=> override
                /\ rec.sent[1].name = rec.function
                /\ rec.sent[1].body = rec.args
                /\ override =>
                      /\ rec.args[P(n_user)] = env.DEV_STATIC_USER_ID
                      /\ rec.given_token = NoneV
                /\ ~override =>
                      /\ rec.function = <<"lists_create">>
                      /\ rec.given_token = rec.in.auth
                      /\ P(n_user) \notin DOMAIN rec.args
                /\ rec.in.auth \notin {NoneV, <<>>} =>
                      /\ ~CallsDev(rec)
                      /\ \A i \in 1..Len(rec.sent) :
                            rec.sent[i].Authorization = CallerAuthorization(rec.in.auth)

\* C11 witness: with DEV_STATIC_USER_ID set and overrides allowed, a request
\* with an empty Authorization header has called lists_create_dev with p_user
C11_Witness ==
    \E c \in Calls :
        /\ calls[c].handler = "lists_create"
        /\ calls[c].in.auth = <<>>
        /\ calls[c].pc = "rpc1"
        /\ calls[c].sent[1].name = <<"lists_create_dev">>
        /\ calls[c].sent[1].body[P(n_user)] = DevUser

\* the auth endpoint has answered the call and the answer gives no dev JWT:
\* the request raised, the status is >= 400, or the body has no access_token
DevJwtFailed(rec) ==
    /\ IsRpcCall(rec)
    /\ ~Truthy(rec.given_token)
    /\ dev_credentials
    /\ rec.jwt_r # NoAuthResponse
    /\ \/ rec.jwt_r.raised
       \/ rec.jwt_r.status >= 400
       \/ ~rec.jwt_r.is_json
       \/ ~Truthy(rec.jwt_r.access_token)

GotToken(c) ==
    /\ calls[c].pc = "auth"
    /\ calls'[c].pc = "rpc1"
    /\ ~calls'[c].jwt_r.raised
    /\ calls'[c].jwt_r.status < 400
    /\ calls'[c].jwt_r.is_json
    /\ Truthy(calls'[c].jwt_r.access_token)

\* C13: the token cache is modified only by a successful auth response that
\* contains an access_token, and then holds that token; a call that returns
\* early (credentials missing, cache hit), that sends the auth request, or
\* whose auth request fails leaves token and expires_at unchanged; an expired
\* token stays in the cache and is not returned: the call sends the auth
\* request instead.
C13_CacheWrittenOnlyOnSuccess ==
    [][/\ cache' # cache =>
            \E c \in Calls : GotToken(c) /\ cache'.token = calls'[c].jwt_r.access_token
       /\ \A c \in Calls :
            /\ (calls[c].pc = "idle" /\ calls'[c].pc # "idle") => cache' = cache
            /\ (calls[c].pc = "auth" /\ calls'[c].pc # "auth" /\ ~GotToken(c)) =>
                  cache' = cache
            /\ ( /\ StartsWithoutToken(c)
                 /\ dev_credentials
                 /\ Truthy(cache.token)
                 /\ cache.expires_at - 10 <= now ) =>
                  /\ calls'[c].pc = "auth"
                  /\ RpcPosts(calls'[c]) = <<>>
                  /\ cache' = cache]_vars

\* C13 witness: the cache holds an expired token, a call has asked for a new
\* one, the auth endpoint has answered 400, and the expired token is still in
\* the cache while the RPC goes out without it
C13_Witness ==
    \E c \in Calls :
        /\ cache.token = d1
        /\ cache.expires_at - 10 <= now
        /\ calls[c].pc = "rpc1"
        /\ calls[c].jwt_r.status = 400
        /\ ~Truthy(calls[c].auth_token)
        /\ calls[c].sent[2].Authorization # BearerPrefix \o d1

\* the cached token and expires_at come from the one auth response on record:
\* the token is that response's, and expires_at is the time its request was
\* sent plus its expires_in (3600 when absent or zero)
SameResponse ==
    /\ issued # NoIssue
    /\ cache.token = issued.resp.access_token
    /\ cache.expires_at =
          issued.start + (IF issued.resp.expires_in \in {Absent, 0}
                          THEN 3600
                          ELSE issued.resp.expires_in)
    /\ issued.start <= issued.iat

\* the call takes the cached token at this step
ServedFromCache(c) ==
    /\ StartsWithoutToken(c)
    /\ dev_credentials
    /\ calls'[c].pc = "rpc1"
    /\ AuthPosts(calls'[c]) = <<>>
    /\ calls'[c].auth_token = cache.token

\* C14 as stated: under any interleaving of concurrent calls the cached token
\* and expires_at come from the same auth response, and the cached expires_at
\* is never later than the token's real expiry, its issue time plus the
\* expires_in of the response.
C14_AsStated ==
    cache.token # NoneV =>
        /\ SameResponse
        /\ issued.resp.expires_in # Absent =>
              cache.expires_at <= issued.iat + issued.resp.expires_in

\* C14 (amended): under any interleaving of concurrent calls the cached token
\* and expires_at come from the same auth response; when that response gives
\* a non-zero expires_in, the cached expires_at is never later than the
\* token's real expiry (issue time plus expires_in) and a token served from
\* the cache is not past it; when the response gives expires_in zero the
\* lifetime is taken to be 3600 and the cached expires_at is later than the
\* token's real expiry.
C14_CacheConsistentUnderInterleaving ==
    /\ [](cache.token # NoneV =>
            /\ SameResponse
            /\ issued.resp.expires_in \notin {Absent, 0} =>
                  cache.expires_at <= issued.iat + issued.resp.expires_in
            /\ issued.resp.expires_in = 0 =>
                  cache.expires_at > issued.iat + issued.resp.expires_in)
    /\ [][\A c \in Calls :
            ServedFromCache(c) =>
                /\ cache.token # NoneV
                /\ issued.resp.expires_in \notin {Absent, 0} =>
                      now < issued.iat + issued.resp.expires_in]_vars

\* C14 witness: call a sent its auth request at time 0 and still waits; call
\* b sent its own at time 1, was answered first with token d2 for 11 seconds,
\* and wrote the cache
C14_Witness ==
    /\ calls["a"].pc = "auth"
    /\ calls["a"].jwt_now = 0
    /\ calls["b"].pc = "rpc1"
    /\ calls["b"].jwt_r = AuthBody(d2, 11)
    /\ calls["b"].auth_token = d2
    /\ cache = [token |-> d2, expires_at |-> 12]
    /\ issued.start = 1

UpdateHandlers == {"lists_update", "tasks_update", "tags_update", "reminders_update"}

\* C15 as stated: for PUT /lists/{list_id}, /tasks/{task_id}, /tags/{tag_id}
\* and /reminders/{reminder_id} the id argument sent to the backing update RPC
\* is the identifier of the URL path, whatever keys the body has (its own id
\* included).
C15_AsStated ==
    \A c \in Calls :
        LET rec == calls[c]
        IN  (rec.handler \in UpdateHandlers /\ rec.sent # <<>>) =>
                /\ n_id \in DOMAIN rec.sent[1].body
                /\ rec.sent[1].body[n_id] = rec.in.path

====
